---- MODULE Spec2Model ----
(***************************************************************************)
(* Model of zod/anno/parser.py: the annotation file loader, the four       *)
(* annotation parsers and the dispatch registry ANNOTATION_PARSERS.        *)
(*                                                                         *)
(* JSON scalars are pairs <<type, lexeme>>, JSON objects are functions     *)
(* from their keys (a key the object lacks is not in the DOMAIN), and a    *)
(* decoded document is [kind, items]: items are what Python's iteration    *)
(* over the decoded value yields (the elements of a list, the keys of a    *)
(* dict, the characters of a str).                                         *)
(***************************************************************************)
EXTENDS Naturals, Sequences, FiniteSets, TLC

VARIABLES
    fs,          \* the file system: the decoded-or-broken content at each path
    defaults,    \* the default `classes` list object of each polygon parser
    callerList,  \* the list object a caller passed as `classes`
    call,        \* the running (or last) call: parser, registry kind, arguments, file
    pc,          \* where the call stands: idle, opened, exit, parse, done
    handles,     \* the file objects that are open
    pending,     \* the exception in flight inside the loader's with block
    annotation,  \* the loader's `annotation`, as returned to the parser
    outcome,     \* what the call gave its caller: a value or an error
    repeat,      \* the call repeats the one before it
    prevOutcome  \* the outcome of the call it repeats

vars == <<fs, defaults, callerList, call, pc, handles, pending, annotation,
          outcome, repeat, prevOutcome>>

(* ------------------------------ bounds ------------------------------ *)

\* Longest top-level array of a modelled annotation file.
MaxLen == 2

(* --------------------------- JSON values ---------------------------- *)

JTrue == <<"bool", "true">>

JFalse == <<"bool", "false">>

JNull == <<"null", "null">>

JStr(s) == <<"str", s>>

JNum(s) == <<"num", s>>

Has(obj, key) == key \in DOMAIN obj

\* Python's truth test of a decoded JSON scalar, as `if value:` applies it.
Truthy(v) ==
    CASE v[1] = "bool" -> v[2] = "true"
      [] v[1] = "num"  -> v[2] \notin {"0", "0.0"}
      [] v[1] = "str"  -> v[2] # ""
      [] OTHER         -> FALSE

P1 == <<"coords", "P1">>

P2 == <<"coords", "P2">>

P3 == <<"coords", "P3">>

SignProps(unclear, class, uuid) ==
    [unclear |-> unclear, class |-> JStr(class),
     occlusion_ratio |-> JNum("0.1"), annotation_uuid |-> JStr(uuid),
     is_electronic |-> JFalse]

Sign(unclear, class, uuid, coords) ==
    [properties |-> SignProps(unclear, class, uuid),
     geometry |-> [coordinates |-> coords]]

Lane(class, coords) ==
    [properties |-> [class |-> JStr(class)],
     geometry |-> [coordinates |-> coords]]

\* The raw records the modelled files are made of.
SignRecords ==
    { Sign(JFalse, "stop", "a1", P1),
      Sign(JFalse, "yield", "a2", P2),
      Sign(JTrue, "stop", "a3", P3),
      Sign(JStr("false"), "stop", "a4", P1),
      Sign(JNum("1"), "yield", "a5", P2),
      Sign(JNum("0"), "stop", "a6", P3),
      Sign(JNull, "yield", "a7", P1),
      Sign(JFalse, "bogus", "a8", P2) }

PartialRecords ==
    { [properties |-> [unclear |-> JTrue]],
      [properties |-> [unclear |-> JFalse, class |-> JStr("stop"),
                       occlusion_ratio |-> JNum("0.1"),
                       is_electronic |-> JFalse],
       geometry |-> [coordinates |-> P1]],
      [properties |-> <<>>, geometry |-> [coordinates |-> P2]],
      [geometry |-> [coordinates |-> P3]],
      [properties |-> [class |-> JStr("lm_dashed")]] }

LaneRecords ==
    { Lane("lm_dashed", P1), Lane("lm_solid", P2), Lane("EgoRoad_Road", P3) }

Records == SignRecords \cup PartialRecords \cup LaneRecords

RECURSIVE SeqsUpTo(_, _)
SeqsUpTo(S, n) ==
    IF n = 0 THEN { <<>> }
    ELSE LET shorter == SeqsUpTo(S, n - 1)
         IN  shorter \cup { Append(s, x) : s \in shorter, x \in S }

\* What json.load can give for a file that decodes.
ArrayDocuments == { [kind |-> "array", items |-> s] : s \in SeqsUpTo(Records, MaxLen) }

OtherDocuments ==
    { [kind |-> "object", items |-> <<>>],
      [kind |-> "object", items |-> <<"properties", "geometry">>],
      [kind |-> "string", items |-> <<>>],
      [kind |-> "string", items |-> <<"l", "m">>],
      [kind |-> "number", items |-> <<>>],
      [kind |-> "null", items |-> <<>>] }

\* Files json.load fails on: text that is no JSON, bytes that do not decode.
BrokenDocuments ==
    { [kind |-> "invalid", items |-> <<>>],
      [kind |-> "undecodable", items |-> <<>>] }

NoDocument == [kind |-> "none", items |-> <<>>]

AnnotationPath == "annotation.json"

MissingPath == "missing.json"

Paths == {AnnotationPath, MissingPath}

(* ----------------------- call outcomes ------------------------------ *)

Return(value) == [status |-> "return", value |-> value, error |-> ""]

Raise(error) == [status |-> "raise", value |-> <<>>, error |-> error]

NoOutcome == [status |-> "none", value |-> <<>>, error |-> ""]

(* ---------------------- external collaborators ---------------------- *)

\* zod.anno.tsr.class_map: the registered traffic-sign labels and indices.
CLASS_MAP == ("stop" :> 0) @@ ("yield" :> 1)

get_class_idx(label) ==
    IF label[1] = "str" /\ label[2] \in DOMAIN CLASS_MAP
    THEN Return(CLASS_MAP[label[2]])
    ELSE Raise("UnknownClass")

\* zod.data_classes.box: Box2D.from_points(points, frame).
Box2D_from_points(points, frame) == [points |-> points, frame |-> frame]

Camera_FRONT == "front"

ObjectRequiredProperties == {"unclear", "class", "annotation_uuid"}

\* zod.anno.object: ObjectAnnotation.from_dict(data); isDict tells whether
\* data is a JSON object at all.
ObjectAnnotation_from_dict(data, isDict) ==
    IF ~isDict THEN Raise("TypeError")
    ELSE IF ~Has(data, "properties") \/ ~Has(data, "geometry") THEN Raise("KeyError")
    ELSE IF ~(ObjectRequiredProperties \subseteq DOMAIN data.properties)
            \/ ~Has(data.geometry, "coordinates") THEN Raise("KeyError")
    ELSE Return([uuid |-> data.properties.annotation_uuid,
                 box2d |-> Box2D_from_points(data.geometry.coordinates, Camera_FRONT),
                 unclear |-> data.properties.unclear,
                 name |-> data.properties.class])

(* ------------------------- iteration protocol ------------------------ *)

\* `for x in value` raises TypeError on a number or None.
Iterable(doc) == doc.kind \in {"array", "object", "string"}

\* Only a list's elements are the JSON objects the parsers subscript by key;
\* a dict yields its keys and a str its characters, both str.
ElementsAreDicts(doc) == doc.kind = "array"

(* ----------------- parse_object_detection_annotation ----------------- *)

RECURSIVE od_comprehension(_, _, _)
od_comprehension(doc, i, built) ==
    IF i > Len(doc.items) THEN Return(built)
    ELSE LET obj == ObjectAnnotation_from_dict(doc.items[i], ElementsAreDicts(doc))
         IN  IF obj.status = "raise" THEN obj
             ELSE od_comprehension(doc, i + 1, Append(built, obj.value))

RECURSIVE od_skipping_unclear(_, _, _)
od_skipping_unclear(doc, i, built) ==
    IF i > Len(doc.items) THEN Return(built)
    ELSE LET obj == ObjectAnnotation_from_dict(doc.items[i], ElementsAreDicts(doc))
         IN  IF obj.status = "raise" THEN obj
             ELSE IF Truthy(obj.value.unclear) THEN od_skipping_unclear(doc, i + 1, built)
             ELSE od_skipping_unclear(doc, i + 1, Append(built, obj.value))

parse_object_detection_filtering(doc) ==
    IF ~Iterable(doc) THEN Raise("TypeError")
    ELSE od_skipping_unclear(doc, 1, <<>>)

parse_object_detection_annotation(doc) ==
    IF ~Iterable(doc) THEN Raise("TypeError")
    ELSE od_comprehension(doc, 1, <<>>)

(* ------------------- parse_traffic_sign_annotation ------------------- *)

ts_unclear_never(annotated_object) == FALSE

ts_unclear_strict(annotated_object) == annotated_object.properties.unclear = JTrue

\* Line 32: `if annotated_object["properties"]["unclear"]:`.
ts_unclear(annotated_object) == Truthy(annotated_object.properties.unclear)

TrafficSignAnnotation_swapped(annotated_object, idx) ==
    [bounding_box |-> Box2D_from_points(annotated_object.geometry.coordinates, Camera_FRONT),
     traffic_sign_class |-> annotated_object.properties.class,
     traffic_sign_idx |-> idx,
     occlusion_ratio |-> annotated_object.properties.occlusion_ratio,
     annotation_uuid |-> annotated_object.properties.annotation_uuid,
     electronic_sign |-> annotated_object.properties.is_electronic,
     uuid |-> annotated_object.properties.class]

\* Lines 36-44: the TrafficSignAnnotation built from one record.
TrafficSignAnnotation(annotated_object, idx) ==
    [bounding_box |-> Box2D_from_points(annotated_object.geometry.coordinates, Camera_FRONT),
     traffic_sign_class |-> annotated_object.properties.class,
     traffic_sign_idx |-> idx,
     occlusion_ratio |-> annotated_object.properties.occlusion_ratio,
     annotation_uuid |-> annotated_object.properties.annotation_uuid,
     electronic_sign |-> annotated_object.properties.is_electronic,
     uuid |-> annotated_object.properties.annotation_uuid]

\* Lines 34-44 for one record that is not skipped: the annotation, or the
\* error the first failing subscript or lookup raises.
ts_build(annotated_object) ==
    IF ~Has(annotated_object, "geometry") THEN Raise("KeyError")
    ELSE IF ~Has(annotated_object.geometry, "coordinates") THEN Raise("KeyError")
    ELSE IF ~Has(annotated_object.properties, "class") THEN Raise("KeyError")
    ELSE LET idx == get_class_idx(annotated_object.properties.class)
         IN  IF idx.status = "raise" THEN idx
             ELSE IF ~({"occlusion_ratio", "annotation_uuid", "is_electronic"}
                         \subseteq DOMAIN annotated_object.properties)
             THEN Raise("KeyError")
             ELSE Return(TrafficSignAnnotation(annotated_object, idx.value))

RECURSIVE ts_loop_lenient(_, _, _)
ts_loop_lenient(doc, i, annotated_objects) ==
    IF i > Len(doc.items) THEN Return(annotated_objects)
    ELSE LET annotated_object == doc.items[i]
         IN  IF ~ElementsAreDicts(doc) THEN Return(annotated_objects)
             ELSE IF ~Has(annotated_object, "properties") THEN Return(annotated_objects)
             ELSE IF ~Has(annotated_object.properties, "unclear") THEN Return(annotated_objects)
             ELSE IF ts_unclear(annotated_object)
             THEN ts_loop_lenient(doc, i + 1, annotated_objects)
             ELSE LET built == ts_build(annotated_object)
                  IN  IF built.status = "raise" THEN Return(annotated_objects)
                      ELSE ts_loop_lenient(doc, i + 1, Append(annotated_objects, built.value))

\* Lines 29-46: the loop over the decoded records.
RECURSIVE ts_loop(_, _, _)
ts_loop(doc, i, annotated_objects) ==
    IF i > Len(doc.items) THEN Return(annotated_objects)
    ELSE LET annotated_object == doc.items[i]
         IN  IF ~ElementsAreDicts(doc) THEN Raise("TypeError")
             ELSE IF ~Has(annotated_object, "properties") THEN Raise("KeyError")
             ELSE IF ~Has(annotated_object.properties, "unclear") THEN Raise("KeyError")
             ELSE IF ts_unclear(annotated_object)
             THEN ts_loop(doc, i + 1, annotated_objects)
             ELSE LET built == ts_build(annotated_object)
                  IN  IF built.status = "raise" THEN built
                      ELSE ts_loop(doc, i + 1, Append(annotated_objects, built.value))

parse_traffic_sign_annotation(doc) ==
    IF ~Iterable(doc) THEN Raise("TypeError")
    ELSE ts_loop(doc, 1, <<>>)

(* ------- parse_lane_markings_annotation / parse_ego_road_annotation ------- *)

class_in_any(annotated_class, classes) == TRUE

\* Lines 56 and 68: `annotated_class in classes` on a list.
class_in(annotated_class, classes) ==
    \E j \in 1..Len(classes) : JStr(classes[j]) = annotated_class

\* A parser's result together with the allow-list object as the call leaves it.
WithClasses(result, classes) ==
    [status |-> result.status, value |-> result.value, error |-> result.error,
     classes |-> classes]

RECURSIVE lane_loop_recording(_, _, _, _)
lane_loop_recording(doc, i, classes, polygons) ==
    IF i > Len(doc.items) THEN WithClasses(Return(polygons), classes)
    ELSE LET ann == doc.items[i]
         IN  IF ~ElementsAreDicts(doc) THEN WithClasses(Raise("TypeError"), classes)
             ELSE IF ~Has(ann, "properties") THEN WithClasses(Raise("KeyError"), classes)
             ELSE IF Has(ann.properties, "class")
             THEN IF class_in(ann.properties.class, classes)
                  THEN IF ~Has(ann, "geometry") THEN WithClasses(Raise("KeyError"), classes)
                       ELSE IF ~Has(ann.geometry, "coordinates")
                       THEN WithClasses(Raise("KeyError"), classes)
                       ELSE lane_loop_recording(doc, i + 1, classes,
                                                Append(polygons, ann.geometry.coordinates))
                  ELSE lane_loop_recording(doc, i + 1,
                                           Append(classes, ann.properties.class[2]), polygons)
             ELSE lane_loop_recording(doc, i + 1, classes, polygons)

\* Lines 52-58: the loop of parse_lane_markings_annotation.
RECURSIVE lane_loop(_, _, _, _)
lane_loop(doc, i, classes, polygons) ==
    IF i > Len(doc.items) THEN WithClasses(Return(polygons), classes)
    ELSE LET ann == doc.items[i]
         IN  IF ~ElementsAreDicts(doc) THEN WithClasses(Raise("TypeError"), classes)
             ELSE IF ~Has(ann, "properties") THEN WithClasses(Raise("KeyError"), classes)
             ELSE IF Has(ann.properties, "class")
             THEN IF class_in(ann.properties.class, classes)
                  THEN IF ~Has(ann, "geometry") THEN WithClasses(Raise("KeyError"), classes)
                       ELSE IF ~Has(ann.geometry, "coordinates")
                       THEN WithClasses(Raise("KeyError"), classes)
                       ELSE lane_loop(doc, i + 1, classes,
                                      Append(polygons, ann.geometry.coordinates))
                  ELSE lane_loop(doc, i + 1, classes, polygons)
             ELSE lane_loop(doc, i + 1, classes, polygons)

parse_lane_markings_annotation(doc, classes) ==
    IF ~Iterable(doc) THEN WithClasses(Raise("TypeError"), classes)
    ELSE lane_loop(doc, 1, classes, <<>>)

\* Lines 64-70: the loop of parse_ego_road_annotation.
RECURSIVE ego_loop(_, _, _, _)
ego_loop(doc, i, classes, polygons) ==
    IF i > Len(doc.items) THEN WithClasses(Return(polygons), classes)
    ELSE LET ann == doc.items[i]
         IN  IF ~ElementsAreDicts(doc) THEN WithClasses(Raise("TypeError"), classes)
             ELSE IF ~Has(ann, "properties") THEN WithClasses(Raise("KeyError"), classes)
             ELSE IF Has(ann.properties, "class")
             THEN IF class_in(ann.properties.class, classes)
                  THEN IF ~Has(ann, "geometry") THEN WithClasses(Raise("KeyError"), classes)
                       ELSE IF ~Has(ann.geometry, "coordinates")
                       THEN WithClasses(Raise("KeyError"), classes)
                       ELSE ego_loop(doc, i + 1, classes,
                                     Append(polygons, ann.geometry.coordinates))
                  ELSE ego_loop(doc, i + 1, classes, polygons)
             ELSE ego_loop(doc, i + 1, classes, polygons)

parse_ego_road_annotation(doc, classes) ==
    IF ~Iterable(doc) THEN WithClasses(Raise("TypeError"), classes)
    ELSE ego_loop(doc, 1, classes, <<>>)

(* --------------------------- the registry ---------------------------- *)

\* zod.constants.AnnotationProject, as far as the registry uses it.
AnnotationProject == {"LANE_MARKINGS", "EGO_ROAD", "OBJECT_DETECTION", "TRAFFIC_SIGNS"}

ANNOTATION_PARSERS_swapped ==
    [LANE_MARKINGS |-> "parse_ego_road_annotation",
     EGO_ROAD |-> "parse_lane_markings_annotation",
     OBJECT_DETECTION |-> "parse_object_detection_annotation",
     TRAFFIC_SIGNS |-> "parse_traffic_sign_annotation"]

ANNOTATION_PARSERS ==
    [LANE_MARKINGS |-> "parse_lane_markings_annotation",
     EGO_ROAD |-> "parse_ego_road_annotation",
     OBJECT_DETECTION |-> "parse_object_detection_annotation",
     TRAFFIC_SIGNS |-> "parse_traffic_sign_annotation"]

Parsers ==
    {"parse_lane_markings_annotation", "parse_ego_road_annotation",
     "parse_object_detection_annotation", "parse_traffic_sign_annotation"}

\* The parsers that take the optional `classes` argument.
TakesClasses(parser) ==
    parser \in {"parse_lane_markings_annotation", "parse_ego_road_annotation"}

\* Lines 49 and 61: the default values of `classes`, one list object per function.
DefaultClasses ==
    [parse_lane_markings_annotation |-> <<"lm_dashed", "lm_solid">>,
     parse_ego_road_annotation |-> <<"EgoRoad_Road">>]

\* Allow-lists a caller passes explicitly.
ClassLists == { <<>>, <<"lm_dashed">>, <<"stop", "EgoRoad_Road">> }

(* ------------------------------ state ------------------------------- *)

NoCall ==
    [parser |-> "", kind |-> "", path |-> "", given |-> FALSE, classes0 |-> <<>>,
     file |-> 0]

Init ==
    /\ \/ \E doc \in ArrayDocuments : fs = [p \in {AnnotationPath} |-> doc]
       \/ \E doc \in OtherDocuments : fs = [p \in {AnnotationPath} |-> doc]
       \/ \E doc \in BrokenDocuments : fs = [p \in {AnnotationPath} |-> doc]
    /\ defaults = DefaultClasses
    /\ callerList = <<>>
    /\ call = NoCall
    /\ pc = "idle"
    /\ handles = {}
    /\ pending = ""
    /\ annotation = NoDocument
    /\ outcome = NoOutcome
    /\ repeat = FALSE
    /\ prevOutcome = NoOutcome

(* ------------------------ _read_annotation_file ---------------------- *)

file_exit_on_success(open_files, file, exc) ==
    IF exc = "" THEN open_files \ {file} ELSE open_files

\* Line 15: leaving the `with` block closes the file, whatever `exc` is in flight.
file_exit(open_files, file, exc) == open_files \ {file}

\* A parser is entered and its first statement calls the loader, whose
\* open() (line 15) either fails or yields a new file object.
Enter(parser, kind, path, given, classes) ==
    /\ pc \in {"idle", "done"}
    /\ callerList' = classes
    /\ annotation' = NoDocument
    /\ pending' = ""
    /\ IF path \in DOMAIN fs
       THEN LET file == Cardinality(handles) + 1
            IN  /\ handles' = handles \cup {file}
                /\ call' = [parser |-> parser, kind |-> kind, path |-> path,
                            given |-> given, classes0 |-> classes, file |-> file]
                /\ pc' = "opened"
                /\ outcome' = NoOutcome
       ELSE /\ handles' = handles
            /\ call' = [parser |-> parser, kind |-> kind, path |-> path,
                        given |-> given, classes0 |-> classes, file |-> 0]
            /\ pc' = "done"
            /\ outcome' = Raise("FileNotFoundError")
    /\ UNCHANGED <<fs, defaults>>

\* A caller calls a parser by name, with or without `classes`.
CallDirect(parser, path, given, classes) ==
    /\ Enter(parser, "", path, given, classes)
    /\ repeat' = FALSE
    /\ prevOutcome' = NoOutcome

\* A caller looks the parser up in ANNOTATION_PARSERS by project kind and
\* calls it with the path alone.
Dispatch(kind, path) ==
    /\ kind \in DOMAIN ANNOTATION_PARSERS
    /\ Enter(ANNOTATION_PARSERS[kind], kind, path, FALSE, <<>>)
    /\ repeat' = FALSE
    /\ prevOutcome' = NoOutcome

\* The caller makes the finished call again: same parser, same path, the
\* same allow-list object (or none).
Repeat ==
    /\ pc = "done"
    /\ Enter(call.parser, call.kind, call.path, call.given, callerList)
    /\ repeat' = TRUE
    /\ prevOutcome' = outcome

\* Line 16: json.load(file) on the open file.
Load ==
    /\ pc = "opened"
    /\ LET doc == fs[call.path]
       IN  CASE doc.kind = "invalid" ->
                  /\ pending' = "JSONDecodeError"
                  /\ annotation' = NoDocument
             [] doc.kind = "undecodable" ->
                  /\ pending' = "UnicodeDecodeError"
                  /\ annotation' = NoDocument
             [] OTHER ->
                  /\ pending' = ""
                  /\ annotation' = doc
    /\ pc' = "exit"
    /\ UNCHANGED <<fs, defaults, callerList, call, handles, outcome, repeat, prevOutcome>>

\* Lines 15-17: the `with` block is left; an exception in flight goes on to
\* the parser's caller, otherwise `annotation` is returned to the parser.
Exit ==
    /\ pc = "exit"
    /\ handles' = file_exit(handles, call.file, pending)
    /\ IF pending # ""
       THEN /\ outcome' = Raise(pending)
            /\ pc' = "done"
       ELSE /\ outcome' = NoOutcome
            /\ pc' = "parse"
    /\ pending' = ""
    /\ UNCHANGED <<fs, defaults, callerList, call, annotation, repeat, prevOutcome>>

(* ------------------------- the parsers' bodies ----------------------- *)

\* The list object bound to `classes` in the running call.
BoundClasses == IF call.given THEN callerList ELSE defaults[call.parser]

Finish(result) ==
    /\ outcome' = [status |-> result.status, value |-> result.value,
                   error |-> result.error]
    /\ annotation' = NoDocument
    /\ pc' = "done"
    /\ UNCHANGED <<fs, call, handles, pending, repeat, prevOutcome>>

\* The list object bound to `classes` is left as the call's loop left it.
WriteBack(classes) ==
    IF call.given
    THEN /\ callerList' = classes
         /\ UNCHANGED defaults
    ELSE /\ defaults' = [defaults EXCEPT ![call.parser] = classes]
         /\ UNCHANGED callerList

ParseObjectDetection ==
    /\ pc = "parse"
    /\ call.parser = "parse_object_detection_annotation"
    /\ Finish(parse_object_detection_annotation(annotation))
    /\ UNCHANGED <<defaults, callerList>>

ParseTrafficSign ==
    /\ pc = "parse"
    /\ call.parser = "parse_traffic_sign_annotation"
    /\ Finish(parse_traffic_sign_annotation(annotation))
    /\ UNCHANGED <<defaults, callerList>>

ParseLaneMarkings ==
    /\ pc = "parse"
    /\ call.parser = "parse_lane_markings_annotation"
    /\ LET result == parse_lane_markings_annotation(annotation, BoundClasses)
       IN  /\ Finish(result)
           /\ WriteBack(result.classes)

ParseEgoRoad ==
    /\ pc = "parse"
    /\ call.parser = "parse_ego_road_annotation"
    /\ LET result == parse_ego_road_annotation(annotation, BoundClasses)
       IN  /\ Finish(result)
           /\ WriteBack(result.classes)

Next ==
    \/ \E parser \in Parsers, path \in Paths :
          CallDirect(parser, path, FALSE, <<>>)
    \/ \E parser \in Parsers, path \in Paths, classes \in ClassLists :
          TakesClasses(parser) /\ CallDirect(parser, path, TRUE, classes)
    \/ \E kind \in AnnotationProject, path \in Paths :
          Dispatch(kind, path)
    \/ Repeat
    \/ Load
    \/ Exit
    \/ ParseObjectDetection
    \/ ParseTrafficSign
    \/ ParseLaneMarkings
    \/ ParseEgoRoad

Spec == Init /\ [][Next]_vars

(* ------------------------ vocabulary of the claims -------------------- *)

Doc == fs[AnnotationPath]

\* The call of `parser` on the annotation file has come back to its caller
\* and the file's top level is an array of records.
Finished(parser) ==
    /\ pc = "done"
    /\ call.parser = parser
    /\ call.path = AnnotationPath
    /\ Doc.kind = "array"

Returned(parser) == Finished(parser) /\ outcome.status = "return"

HasUnclear(r) == Has(r, "properties") /\ Has(r.properties, "unclear")

IsBoolean(v) == v \in {JTrue, JFalse}

\* A record the traffic-sign parser cannot get through: a field it reads for
\* the record is absent, or the record is built and its label has no index.
BadSignRecord(r) ==
    \/ ~HasUnclear(r)
    \/ /\ ~Truthy(r.properties.unclear)
       /\ \/ ~Has(r, "geometry")
          \/ ~({"class", "occlusion_ratio", "annotation_uuid", "is_electronic"}
                 \subseteq DOMAIN r.properties)
          \/ r.properties.class[2] \notin DOMAIN CLASS_MAP

\* A record the ObjectAnnotation constructor refuses.
BadObjectRecord(r) == ObjectAnnotation_from_dict(r, TRUE).status = "raise"

NotUnclearTrue(r) == r.properties.unclear # JTrue

NotSkipped(r) == ~Truthy(r.properties.unclear)

\* The allow-list in effect for the finished lane-marking or ego-road call.
AllowList == IF call.given THEN call.classes0 ELSE DefaultClasses[call.parser]

Allowed(r) ==
    /\ Has(r, "properties")
    /\ Has(r.properties, "class")
    /\ \E j \in 1..Len(AllowList) : r.properties.class = JStr(AllowList[j])

PolygonParsers == {"parse_lane_markings_annotation", "parse_ego_road_annotation"}

(* ------------------------------- C1 ---------------------------------- *)

C2_AllowedPolygonsInOrder ==
    \A parser \in PolygonParsers :
        Finished(parser) =>
            LET allowed == SelectSeq(Doc.items, Allowed)
                sound == /\ \A i \in 1..Len(Doc.items) : Has(Doc.items[i], "properties")
                         /\ \A k \in 1..Len(allowed) : Has(allowed[k], "geometry")
            IN  /\ sound <=> outcome.status = "return"
                /\ outcome.status = "return" =>
                      /\ Len(outcome.value) = Len(allowed)
                      /\ \A k \in 1..Len(allowed) :
                            outcome.value[k] = allowed[k].geometry.coordinates

C2_Witness ==
    /\ Returned("parse_lane_markings_annotation")
    /\ ~call.given
    /\ Len(Doc.items) = 2
    /\ ~Has(Doc.items[1].properties, "class")
    /\ Allowed(Doc.items[2])
    /\ outcome.value = <<Doc.items[2].geometry.coordinates>>

(* ------------------------------- C3 ---------------------------------- *)

\* C3: for a file every record of which the ObjectAnnotation constructor
\* accepts, the object-detection parser returns as many annotations as the
\* file has records, the i-th built from the i-th record, with no filtering.
C3_EveryRecordConverted ==
    Finished("parse_object_detection_annotation") =>
        /\ (\A i \in 1..Len(Doc.items) : ~BadObjectRecord(Doc.items[i])) =>
              outcome.status = "return"
        /\ outcome.status = "return" =>
              /\ Len(outcome.value) = Len(Doc.items)
              /\ \A i \in 1..Len(Doc.items) :
                    outcome.value[i] = ObjectAnnotation_from_dict(Doc.items[i], TRUE).value

C3_Witness ==
    /\ Returned("parse_object_detection_annotation")
    /\ Len(Doc.items) = 2
    /\ Doc.items[1].properties.unclear = JTrue
    /\ Len(outcome.value) = 2
    /\ outcome.value[1].uuid # outcome.value[2].uuid

(* ------------------------------- C4 ---------------------------------- *)

\* C4: every annotation the traffic-sign parser emits carries its record's
\* properties.class as traffic_sign_class, the class map's index of that
\* label as traffic_sign_idx, and its record's properties.annotation_uuid
\* as both annotation_uuid and uuid.
C4_FieldsOfSourceRecord ==
    Returned("parse_traffic_sign_annotation") =>
        LET kept == SelectSeq(Doc.items, NotSkipped)
        IN  /\ Len(outcome.value) = Len(kept)
            /\ \A k \in 1..Len(kept) :
                  /\ outcome.value[k].traffic_sign_class = kept[k].properties.class
                  /\ outcome.value[k].traffic_sign_idx = CLASS_MAP[kept[k].properties.class[2]]
                  /\ outcome.value[k].annotation_uuid = kept[k].properties.annotation_uuid
                  /\ outcome.value[k].uuid = kept[k].properties.annotation_uuid

C4_Witness ==
    /\ Returned("parse_traffic_sign_annotation")
    /\ Len(outcome.value) = 2
    /\ outcome.value[1].traffic_sign_class = JStr("yield")
    /\ outcome.value[2].traffic_sign_class = JStr("stop")
    /\ outcome.value[1].traffic_sign_idx # outcome.value[2].traffic_sign_idx

(* ------------------------------- C5 ---------------------------------- *)

\* C5: in the object-detection and traffic-sign parsers one bad record,
\* wherever it sits in the file, makes the call end in an error that
\* reaches the caller, with no list of the earlier annotations returned.
C5_BadRecordAbortsParse ==
    /\ Finished("parse_traffic_sign_annotation") =>
          ((\E i \in 1..Len(Doc.items) : BadSignRecord(Doc.items[i])) =>
              /\ outcome.status = "raise"
              /\ outcome.error \in {"KeyError", "UnknownClass"}
              /\ outcome.value = <<>>)
    /\ Finished("parse_object_detection_annotation") =>
          ((\E i \in 1..Len(Doc.items) : BadObjectRecord(Doc.items[i])) =>
              /\ outcome.status = "raise"
              /\ outcome.error = "KeyError"
              /\ outcome.value = <<>>)

C5_Witness ==
    /\ Finished("parse_traffic_sign_annotation")
    /\ Len(Doc.items) = 2
    /\ ~BadSignRecord(Doc.items[1])
    /\ Doc.items[1].properties.unclear = JFalse
    /\ BadSignRecord(Doc.items[2])
    /\ outcome.status = "raise"

(* ------------------------------- C6 ---------------------------------- *)

\* C6: the loader fails, and hands no value to the parser, whenever the file
\* is not valid JSON or its top-level value is not an array, and fails with
\* a file-not-found error when the path does not resolve.
C6_LoaderRejectsNonArray ==
    /\ pc = "parse" => annotation.kind = "array"
    /\ (pc = "done" /\ call.path = AnnotationPath /\ Doc.kind = "invalid") =>
          (outcome.status = "raise" /\ outcome.error = "JSONDecodeError")
    /\ (pc = "done" /\ call.path = AnnotationPath
          /\ Doc.kind \in {"object", "string", "number", "null"}) =>
          outcome.status = "raise"
    /\ (pc = "done" /\ call.path = MissingPath) =>
          (outcome.status = "raise" /\ outcome.error = "FileNotFoundError")

(* ------------------------------- C7 ---------------------------------- *)

\* C7: after any sequence of calls the default allow-lists are still
\* [lm_dashed, lm_solid] and [EgoRoad_Road], a finished call has left the
\* allow-list it was given as it was, and a call made again on the same
\* file with the same allow-list ends exactly as it did the first time.
C7_CallsAreIndependent ==
    /\ defaults["parse_lane_markings_annotation"] = <<"lm_dashed", "lm_solid">>
    /\ defaults["parse_ego_road_annotation"] = <<"EgoRoad_Road">>
    /\ (pc = "done" /\ call.given) => callerList = call.classes0
    /\ (pc = "done" /\ repeat) => outcome = prevOutcome

C7_Witness ==
    /\ Returned("parse_lane_markings_annotation")
    /\ repeat
    /\ ~call.given
    /\ Len(Doc.items) = 2
    /\ Doc.items[1] = Lane("EgoRoad_Road", P3)
    /\ Doc.items[2] = Lane("lm_solid", P2)
    /\ outcome.value = <<P2>>
    /\ prevOutcome = outcome

(* ------------------------------- C8 ---------------------------------- *)

NamedParser(kind) ==
    CASE kind = "LANE_MARKINGS"    -> "parse_lane_markings_annotation"
      [] kind = "EGO_ROAD"         -> "parse_ego_road_annotation"
      [] kind = "OBJECT_DETECTION" -> "parse_object_detection_annotation"
      [] kind = "TRAFFIC_SIGNS"    -> "parse_traffic_sign_annotation"

\* What calling the parser named after `kind` directly on the decoded
\* annotation file gives.
DirectResult(kind) ==
    LET r == CASE kind = "LANE_MARKINGS" ->
                    parse_lane_markings_annotation(Doc, <<"lm_dashed", "lm_solid">>)
               [] kind = "EGO_ROAD" ->
                    parse_ego_road_annotation(Doc, <<"EgoRoad_Road">>)
               [] kind = "OBJECT_DETECTION" -> parse_object_detection_annotation(Doc)
               [] kind = "TRAFFIC_SIGNS" -> parse_traffic_sign_annotation(Doc)
    IN  [status |-> r.status, value |-> r.value, error |-> r.error]

\* C8: the registry's keys are exactly the four project kinds, each kind is
\* mapped to the parser of that project, and a call dispatched through the
\* registry ends as the direct call of the named parser does.
C8_RegistryMapsKindToItsParser ==
    /\ DOMAIN ANNOTATION_PARSERS = AnnotationProject
    /\ \A kind \in AnnotationProject : ANNOTATION_PARSERS[kind] = NamedParser(kind)
    /\ (pc # "idle" /\ call.kind # "") => call.parser = NamedParser(call.kind)
    /\ (pc = "done" /\ call.kind # "" /\ call.path = AnnotationPath
          /\ Doc.kind \notin {"invalid", "undecodable"}) =>
          outcome = DirectResult(call.kind)

C8_Witness ==
    /\ Returned("parse_lane_markings_annotation")
    /\ call.kind = "LANE_MARKINGS"
    /\ Len(Doc.items) = 2
    /\ Doc.items[1] = Lane("EgoRoad_Road", P3)
    /\ Doc.items[2] = Lane("lm_dashed", P1)
    /\ outcome.value = <<P1>>

(* ------------------------------- C9 ---------------------------------- *)

\* Whether the traffic-sign call's output has an annotation of record r.
Emitted(r) ==
    \E k \in 1..Len(outcome.value) :
        outcome.value[k].annotation_uuid = r.properties.annotation_uuid

\* C9 as stated: the skip test is a strict boolean test, so only a record
\* whose `unclear` is the boolean true is left out of the output.
C9_SkipsOnlyBooleanTrue ==
    Returned("parse_traffic_sign_annotation") =>
        \A i \in 1..Len(Doc.items) :
            Doc.items[i].properties.unclear # JTrue => Emitted(Doc.items[i])

\* C9 as amended: the skip test is Python's truth test. A record is left out
\* exactly when its `unclear` is true, a non-empty string (also "false") or
\* a non-zero number; false, 0, the empty string and null keep the record.
C9_SkipsByTruthTest ==
    Returned("parse_traffic_sign_annotation") =>
        \A i \in 1..Len(Doc.items) :
            LET u == Doc.items[i].properties.unclear
                skipped == /\ Has(Doc.items[i].properties, "annotation_uuid") =>
                                ~Emitted(Doc.items[i])
                           /\ Len(outcome.value) < Len(Doc.items)
            IN  /\ u[1] = "bool" => (skipped <=> u = JTrue)
                /\ u[1] = "str"  => (skipped <=> u[2] # "")
                /\ u[1] = "num"  => (skipped <=> u[2] \notin {"0", "0.0"})
                /\ u[1] = "null" => ~skipped

C9_Witness ==
    /\ Returned("parse_traffic_sign_annotation")
    /\ Len(Doc.items) = 2
    /\ Doc.items[1].properties.unclear = JStr("false")
    /\ Doc.items[2].properties.unclear = JNum("0")
    /\ Len(outcome.value) = 1
    /\ outcome.value[1].annotation_uuid = Doc.items[2].properties.annotation_uuid

(* ------------------------------- C10 --------------------------------- *)

\* C10: whenever control is back with the loader's caller - the parser after
\* a successful decode, the parser's caller after a failure or at the end of
\* the call - no file the loader opened is still open, and a failed open()
\* has left no file object behind.
C10_HandleReleasedOnEveryExit ==
    /\ pc \in {"idle", "parse", "done"} => handles = {}
    /\ (pc = "done" /\ outcome.error = "FileNotFoundError") => call.file = 0

C10_Witness ==
    /\ pc = "done"
    /\ call.file # 0
    /\ outcome.status = "raise"
    /\ outcome.error \in {"JSONDecodeError", "UnicodeDecodeError"}
    /\ handles = {}

====
